---- MODULE Spec2Model ----
(***************************************************************************)
(* Model of go_ssh/ssh.go: connectToServer, SSHTerminal.interactiveSession *)
(* and SSHTerminal.updateTerminalSize, with the goroutines they start (the *)
(* resize watcher, the stderr/stdout copiers and the stdin forwarder) and  *)
(* the environment they react to (the local terminal, the operator and the *)
(* remote side of the ssh channel).                                        *)
(*                                                                         *)
(* Each action is one statement of the main flow or one step of a          *)
(* goroutine between two points at which another goroutine can run.        *)
(* Deferred calls are kept on one stack per function frame and run LIFO    *)
(* when the frame returns, as Go runs them.                                *)
(***************************************************************************)
EXTENDS Integers, Sequences, FiniteSets, TLC

(* ------------------------------ bounds -------------------------------- *)
\* number of times the operator resizes the local terminal
MaxResize == 1
\* number of window-change signals that arrive without a size change
MaxSignal == 1
\* number of bytes the operator types
MaxInput == 1
\* the bytes by which the paste of the relay specification exceeds buf
MaxExtra == 1

(* ------------------------- program constants -------------------------- *)
\* buf := make([]byte, 128)
BufSize == 128
\* sigwinchCh := make(chan os.Signal, 1)
SigChanCap == 1
\* wg.Add(2)
WgAdd == 2

\* sizes the local terminal can have, <<width, height>>
Sizes == {<<80, 24>>, <<120, 40>>}
InitialSize == <<80, 24>>
\* width and height term.GetSize returns together with a non-nil error
ErrSize == <<0, 0>>

NoErr == "nil"
\* the text of the error a write on a closed channel returns
WriteErrText == "EOF"
DefaultMsg == "the connection was closed on the remote side on <time>"

Min(a, b) == IF a < b THEN a ELSE b

VARIABLES
    pc,           \* position of the main flow
    retErr,       \* the error value being returned ("nil" for none)
    deferCT,      \* deferred calls of connectToServer, in registration order
    deferIS,      \* deferred calls of interactiveSession, in registration order
    client,       \* the ssh client (network connection): none / open / closed
    session,      \* the ssh session: none / open / closed
    termMode,     \* mode of the local terminal: cooked / raw
    state,        \* the *term.State returned by MakeRaw: unset / saved
    isSize,       \* termWidth, termHeight of interactiveSession
    ptyState,     \* outcome of RequestPty: none / ok / rejected
    pipes,        \* outcome of StdinPipe, StdoutPipe, StderrPipe
    shell,        \* outcome of Session.Shell: none / started / failed
    exitMsg,      \* t.exitMsg
    wg,           \* counter of the WaitGroup
    waitCalled,   \* Session.Wait has been called
    wpc,          \* position of the resize watcher goroutine
    notifyOn,     \* signal.Notify(sigwinchCh, SIGWINCH) is in effect
    sigwinchCh,   \* number of signals buffered in sigwinchCh
    termSize,     \* termWidth, termHeight of the watcher (last-known size)
    copyPc,       \* position of the stderr and stdout copiers
    inPc,         \* position of the stdin forwarder
    buf,          \* buf[:n] of the forwarder's last Read: the bytes, by position
    nread,        \* bytes the forwarder has read from os.Stdin
    written,      \* the bytes the forwarder has written to t.stdin, in order
    inErr,        \* the call whose error stopped the forwarder: none / read / write
    localSize,    \* environment: the size of the local terminal
    typed,        \* environment: bytes the operator has typed
    remote,       \* environment: the remote command: idle / running / exited
    exitStatus,   \* environment: how the remote command ended
    remoteSize,   \* environment: size of the remote pty as last requested
    resizes,      \* history: local resizes so far
    signals,      \* history: size-less window-change signals so far
    events,       \* history: the teardown calls and messages, in order
    handled,      \* history: the last two notifications the watcher handled
    server,       \* the Server connectToServer is called with
    files,        \* environment: the home directory and the key file
    auth          \* sshConfig.Auth

vars == <<pc, retErr, deferCT, deferIS, client, session, termMode, state,
          isSize, ptyState, pipes, shell, exitMsg, wg, waitCalled, wpc,
          notifyOn, sigwinchCh, termSize, copyPc, inPc, buf, nread, written,
          inErr, localSize, typed, remote, exitStatus, remoteSize, resizes, signals,
          events, handled, server, files, auth>>

mainVars == <<pc, retErr, deferCT, deferIS, client, session, termMode, state,
              isSize, ptyState, pipes, shell, waitCalled>>
watcherVars == <<wpc, notifyOn, sigwinchCh, termSize, handled>>
relayVars == <<copyPc, inPc, buf, nread, written, inErr, wg, exitMsg>>
envVars == <<localSize, typed, remote, exitStatus, resizes, signals>>
connVars == <<server, files, auth>>

Push(s, d) == Append(s, d)
Top(s) == s[Len(s)]
Pop(s) == SubSeq(s, 1, Len(s) - 1)

\* a Server of the configuration that is reached with a password
PasswordServer == [UseKey |-> FALSE, PrivateKey |-> "", Password |-> "secret"]

\* the process is running: main() has not returned yet
alive == pc # "done"

\* the ssh channel carries requests and data: the session is open on this
\* side and the remote side has not closed it
channelOpen == session = "open" /\ remote # "exited"

Init ==
    /\ pc = "dial"
    /\ retErr = NoErr
    /\ deferCT = << >>
    /\ deferIS = << >>
    /\ client = "none"
    /\ session = "none"
    /\ termMode = "cooked"
    /\ state = "unset"
    /\ isSize = ErrSize
    /\ ptyState = "none"
    /\ pipes = [p \in {"stdin", "stdout", "stderr"} |-> "none"]
    /\ shell = "none"
    /\ exitMsg = ""
    /\ wg = 0
    /\ waitCalled = FALSE
    /\ wpc = "off"
    /\ notifyOn = FALSE
    /\ sigwinchCh = 0
    /\ termSize = ErrSize
    /\ copyPc = [r \in {"stderr", "stdout"} |-> "off"]
    /\ inPc = "off"
    /\ buf = << >>
    /\ nread = 0
    /\ written = << >>
    /\ inErr = "none"
    /\ localSize = InitialSize
    /\ typed = 0
    /\ remote = "idle"
    /\ exitStatus = "none"
    /\ remoteSize = ErrSize
    /\ resizes = 0
    /\ signals = 0
    /\ events = << >>
    /\ handled = << >>
    /\ server = PasswordServer
    /\ files = [home |-> TRUE, key |-> "ok"]
    /\ auth = <<"password">>

(* ----------------- connectToServer, lines 97-111 ---------------------- *)

\* mutant: the defer statement of line 101 left out
DialNoDefer ==
    /\ pc = "dial"
    /\ \/ /\ client' = "open"
          /\ UNCHANGED deferCT
          /\ pc' = "newSession"
          /\ UNCHANGED retErr
       \/ /\ retErr' = "DialError"
          /\ pc' = "retCT"
          /\ UNCHANGED <<client, deferCT>>
    /\ UNCHANGED <<deferIS, session, termMode, state, isSize, ptyState, pipes,
                   shell, waitCalled, remoteSize, events>>
    /\ UNCHANGED <<watcherVars, relayVars, envVars>>
    /\ UNCHANGED connVars

\* ssh.Dial, lines 97-101: on success the client's Close is deferred
Dial ==
    /\ pc = "dial"
    /\ \/ /\ client' = "open"
          /\ deferCT' = Push(deferCT, "client.Close")
          /\ pc' = "newSession"
          /\ UNCHANGED retErr
       \/ /\ retErr' = "DialError"
          /\ pc' = "retCT"
          /\ UNCHANGED <<client, deferCT>>
    /\ UNCHANGED <<deferIS, session, termMode, state, isSize, ptyState, pipes,
                   shell, waitCalled, remoteSize, events>>
    /\ UNCHANGED <<watcherVars, relayVars, envVars>>
    /\ UNCHANGED connVars

\* client.NewSession, lines 103-107: on success the session's Close is deferred
NewSession ==
    /\ pc = "newSession"
    /\ \/ /\ session' = "open"
          /\ deferCT' = Push(deferCT, "session.Close")
          /\ pc' = "interactiveSession"
          /\ UNCHANGED retErr
       \/ /\ retErr' = "SessionError"
          /\ pc' = "retCT"
          /\ UNCHANGED <<session, deferCT>>
    /\ UNCHANGED <<deferIS, client, termMode, state, isSize, ptyState, pipes,
                   shell, waitCalled, remoteSize, events>>
    /\ UNCHANGED <<watcherVars, relayVars, envVars>>
    /\ UNCHANGED connVars

(* ---------------- interactiveSession, lines 152-240 ------------------- *)

\* lines 109-110 and 153-159: the call, whose first statement defers the
\* function that writes the final message
EnterSession ==
    /\ pc = "interactiveSession"
    /\ deferIS' = Push(deferIS, "exitMsg")
    /\ pc' = "makeRaw"
    /\ UNCHANGED <<retErr, deferCT, client, session, termMode, state, isSize,
                   ptyState, pipes, shell, waitCalled, remoteSize, events>>
    /\ UNCHANGED <<watcherVars, relayVars, envVars>>
    /\ UNCHANGED connVars

\* mutant: the defer statement of line 166 left out
NoDeferRestore(d) == d

\* what line 166 adds to the deferred calls once MakeRaw has succeeded
DeferRestore(d) == Push(d, "term.Restore")

\* mutant: term.Restore is deferred before the error of MakeRaw is checked
MakeRawDeferFirst ==
    /\ pc = "makeRaw"
    /\ \/ /\ termMode' = "raw"
          /\ state' = "saved"
          /\ deferIS' = DeferRestore(deferIS)
          /\ pc' = "getSize"
          /\ UNCHANGED retErr
       \/ /\ retErr' = "RawModeError"
          /\ pc' = "retIS"
          /\ deferIS' = DeferRestore(deferIS)
          /\ UNCHANGED <<termMode, state>>
    /\ UNCHANGED <<deferCT, client, session, isSize, ptyState, pipes, shell,
                   waitCalled, remoteSize, events>>
    /\ UNCHANGED <<watcherVars, relayVars, envVars>>
    /\ UNCHANGED connVars

\* term.MakeRaw, lines 161-166
MakeRaw ==
    /\ pc = "makeRaw"
    /\ \/ /\ termMode' = "raw"
          /\ state' = "saved"
          /\ deferIS' = DeferRestore(deferIS)
          /\ pc' = "getSize"
          /\ UNCHANGED retErr
       \/ /\ retErr' = "RawModeError"
          /\ pc' = "retIS"
          /\ UNCHANGED <<termMode, state, deferIS>>
    /\ UNCHANGED <<deferCT, client, session, isSize, ptyState, pipes, shell,
                   waitCalled, remoteSize, events>>
    /\ UNCHANGED <<watcherVars, relayVars, envVars>>
    /\ UNCHANGED connVars

\* term.GetSize, lines 168-171
GetSize ==
    /\ pc = "getSize"
    /\ \/ /\ isSize' = localSize
          /\ pc' = "requestPty"
          /\ UNCHANGED retErr
       \/ /\ retErr' = "TerminalSizeError"
          /\ pc' = "retIS"
          /\ UNCHANGED isSize
    /\ UNCHANGED <<deferCT, deferIS, client, session, termMode, state,
                   ptyState, pipes, shell, waitCalled, remoteSize, events>>
    /\ UNCHANGED <<watcherVars, relayVars, envVars>>
    /\ UNCHANGED connVars

\* mutant: the error of RequestPty is not checked
IgnorePtyError == "updateTerminalSize"

\* the statement reached once RequestPty has returned an error, lines 179-181
AfterPtyError == "retIS"

\* Session.RequestPty, lines 178-181
RequestPty ==
    /\ pc = "requestPty"
    /\ \/ /\ ptyState' = "ok"
          /\ remoteSize' = isSize
          /\ pc' = "updateTerminalSize"
          /\ UNCHANGED retErr
       \/ /\ ptyState' = "rejected"
          /\ retErr' = "PtyRequestError"
          /\ pc' = AfterPtyError
          /\ UNCHANGED remoteSize
    /\ UNCHANGED <<deferCT, deferIS, client, session, termMode, state, isSize,
                   pipes, shell, waitCalled, events>>
    /\ UNCHANGED <<watcherVars, relayVars, envVars>>
    /\ UNCHANGED connVars

\* t.updateTerminalSize(), line 183 and lines 113-114: starts the watcher
updateTerminalSize ==
    /\ pc = "updateTerminalSize"
    /\ wpc' = "notify"
    /\ pc' = "StdinPipe"
    /\ UNCHANGED <<retErr, deferCT, deferIS, client, session, termMode, state,
                   isSize, ptyState, pipes, shell, waitCalled, remoteSize,
                   events>>
    /\ UNCHANGED <<notifyOn, sigwinchCh, termSize, handled>>
    /\ UNCHANGED <<relayVars, envVars>>
    /\ UNCHANGED connVars

\* mutant: the error of a pipe is not checked
IgnorePipeError(next) == next

\* the statement reached once a pipe could not be opened, lines 186-196
AfterPipeError(next) == "retIS"

\* Session.StdinPipe / StdoutPipe / StderrPipe, lines 185-196
OpenPipe(at, p, next) ==
    /\ pc = at
    /\ \/ /\ pipes' = [pipes EXCEPT ![p] = "open"]
          /\ pc' = next
          /\ UNCHANGED retErr
       \/ /\ pipes' = [pipes EXCEPT ![p] = "failed"]
          /\ retErr' = "StreamOpenError"
          /\ pc' = AfterPipeError(next)
    /\ UNCHANGED <<deferCT, deferIS, client, session, termMode, state, isSize,
                   ptyState, shell, waitCalled, remoteSize, events>>
    /\ UNCHANGED <<watcherVars, relayVars, envVars>>
    /\ UNCHANGED connVars

StdinPipe == OpenPipe("StdinPipe", "stdin", "StdoutPipe")
StdoutPipe == OpenPipe("StdoutPipe", "stdout", "StderrPipe")
StderrPipe == OpenPipe("StderrPipe", "stderr", "go")

\* lines 198-228: wg.Add(2) and the three go statements
StartRelays ==
    /\ pc = "go"
    /\ wg' = WgAdd
    /\ copyPc' = [r \in {"stderr", "stdout"} |-> "copy"]
    /\ inPc' = "read"
    /\ pc' = "Shell"
    /\ UNCHANGED <<retErr, deferCT, deferIS, client, session, termMode, state,
                   isSize, ptyState, pipes, shell, waitCalled, remoteSize,
                   events>>
    /\ UNCHANGED <<buf, nread, written, inErr, exitMsg>>
    /\ UNCHANGED <<watcherVars, envVars>>
    /\ UNCHANGED connVars

\* Session.Shell, lines 230-233
Shell ==
    /\ pc = "Shell"
    /\ \/ /\ shell' = "started"
          /\ remote' = "running"
          /\ pc' = "wg.Wait"
          /\ UNCHANGED retErr
       \/ /\ shell' = "failed"
          /\ retErr' = "ShellStartError"
          /\ pc' = "retIS"
          /\ UNCHANGED remote
    /\ UNCHANGED <<deferCT, deferIS, client, session, termMode, state, isSize,
                   ptyState, pipes, waitCalled, remoteSize, events>>
    /\ UNCHANGED <<localSize, typed, exitStatus, resizes, signals>>
    /\ UNCHANGED <<watcherVars, relayVars>>
    /\ UNCHANGED connVars

\* mutant: wg.Add(3), the forwarder calling wg.Done() when it returns
WgWaitReturnsAfterInput == wg = 0 /\ inPc = "done"

\* mutant: the forwarder calls wg.Done() when it stops on an error
WgWaitReturnsOnInputError == wg = 0 \/ inErr # "none"

\* the condition on which wg.Wait() returns, line 234
WgWaitReturns == wg = 0

\* wg.Wait(), line 234, followed by the call of Session.Wait, line 235
WgWait ==
    /\ pc = "wg.Wait"
    /\ WgWaitReturns
    /\ waitCalled' = TRUE
    /\ pc' = "Session.Wait"
    /\ UNCHANGED <<retErr, deferCT, deferIS, client, session, termMode, state,
                   isSize, ptyState, pipes, shell, remoteSize, events>>
    /\ UNCHANGED <<watcherVars, relayVars, envVars>>
    /\ UNCHANGED connVars

\* mutant: the result of Session.Wait is dropped
WaitResultDropped(st) == NoErr

\* the error interactiveSession returns for the result of Session.Wait,
\* lines 235-239
WaitResult(st) == IF st = "zero" THEN NoErr ELSE "RemoteExitError"

\* Session.Wait returns once the remote command has ended, lines 235-239
SessionWait ==
    /\ pc = "Session.Wait"
    /\ remote = "exited"
    /\ retErr' = WaitResult(exitStatus)
    /\ pc' = "retIS"
    /\ UNCHANGED <<deferCT, deferIS, client, session, termMode, state, isSize,
                   ptyState, pipes, shell, waitCalled, remoteSize, events>>
    /\ UNCHANGED <<watcherVars, relayVars, envVars>>
    /\ UNCHANGED connVars

(* -------------------- deferred calls, run LIFO ------------------------ *)

\* mutant: deferred calls run in the order they were deferred
FirstDeferred(d) == d[1]

\* the deferred call Go runs next when a frame returns: the last one deferred
NextDeferred(d) == Top(d)

\* mutant: the deferred function writes the default message whatever t.exitMsg
AlwaysDefaultMsg(msg) == DefaultMsg

\* the message the deferred function of lines 153-159 writes
FinalMessage(msg) == IF msg = "" THEN DefaultMsg ELSE msg

\* defer term.Restore(fd, state), line 166
Restore ==
    /\ pc = "retIS"
    /\ deferIS # << >>
    /\ NextDeferred(deferIS) = "term.Restore"
    /\ termMode' = "cooked"
    /\ events' = Append(events, "term.Restore")
    /\ deferIS' = Pop(deferIS)
    /\ UNCHANGED <<pc, retErr, deferCT, client, session, state, isSize,
                   ptyState, pipes, shell, waitCalled, remoteSize>>
    /\ UNCHANGED <<watcherVars, relayVars, envVars>>
    /\ UNCHANGED connVars

\* the deferred function of lines 153-159
WriteExitMsg ==
    /\ pc = "retIS"
    /\ deferIS # << >>
    /\ NextDeferred(deferIS) = "exitMsg"
    /\ events' = Append(events, FinalMessage(exitMsg))
    /\ deferIS' = Pop(deferIS)
    /\ UNCHANGED <<pc, retErr, deferCT, client, session, termMode, state,
                   isSize, ptyState, pipes, shell, waitCalled, remoteSize>>
    /\ UNCHANGED <<watcherVars, relayVars, envVars>>
    /\ UNCHANGED connVars

\* interactiveSession returns to connectToServer, line 110
ReturnIS ==
    /\ pc = "retIS"
    /\ deferIS = << >>
    /\ pc' = "retCT"
    /\ UNCHANGED <<retErr, deferCT, deferIS, client, session, termMode, state,
                   isSize, ptyState, pipes, shell, waitCalled, remoteSize,
                   events>>
    /\ UNCHANGED <<watcherVars, relayVars, envVars>>
    /\ UNCHANGED connVars

\* defer session.Close(), line 107
SessionClose ==
    /\ pc = "retCT"
    /\ deferCT # << >>
    /\ NextDeferred(deferCT) = "session.Close"
    /\ session' = "closed"
    /\ events' = Append(events, "session.Close")
    /\ deferCT' = Pop(deferCT)
    /\ UNCHANGED <<pc, retErr, deferIS, client, termMode, state, isSize,
                   ptyState, pipes, shell, waitCalled, remoteSize>>
    /\ UNCHANGED <<watcherVars, relayVars, envVars>>
    /\ UNCHANGED connVars

\* defer client.Close(), line 101
ClientClose ==
    /\ pc = "retCT"
    /\ deferCT # << >>
    /\ NextDeferred(deferCT) = "client.Close"
    /\ client' = "closed"
    /\ events' = Append(events, "client.Close")
    /\ deferCT' = Pop(deferCT)
    /\ UNCHANGED <<pc, retErr, deferIS, session, termMode, state, isSize,
                   ptyState, pipes, shell, waitCalled, remoteSize>>
    /\ UNCHANGED <<watcherVars, relayVars, envVars>>
    /\ UNCHANGED connVars

\* connectToServer returns to main, which returns: the process ends,
\* lines 300-304
ReturnCT ==
    /\ pc = "retCT"
    /\ deferCT = << >>
    /\ pc' = "done"
    /\ UNCHANGED <<retErr, deferCT, deferIS, client, session, termMode, state,
                   isSize, ptyState, pipes, shell, waitCalled, remoteSize,
                   events>>
    /\ UNCHANGED <<watcherVars, relayVars, envVars>>
    /\ UNCHANGED connVars

\* lines 300-304: main prints the error of connectToServer and returns, and
\* a Go program whose main returns ends with status 0
ExitStatus(err) == 0

(* ------------- the resize watcher, lines 114-149 ---------------------- *)

\* lines 116-117: the channel is made and registered for SIGWINCH
WatcherNotify ==
    /\ alive
    /\ wpc = "notify"
    /\ notifyOn' = TRUE
    /\ wpc' = "getSize"
    /\ UNCHANGED <<sigwinchCh, termSize, handled>>
    /\ UNCHANGED <<mainVars, relayVars, envVars, remoteSize, events>>
    /\ UNCHANGED connVars

\* what term.GetSize returns: the size of the terminal, or ErrSize with an
\* error
ReadSize(ok) == IF ok THEN localSize ELSE ErrSize

\* lines 119-123: the first read of the size; an error is only printed
WatcherGetSize ==
    /\ alive
    /\ wpc = "getSize"
    /\ \E ok \in BOOLEAN : termSize' = ReadSize(ok)
    /\ wpc' = "select"
    /\ UNCHANGED <<notifyOn, sigwinchCh, handled>>
    /\ UNCHANGED <<mainVars, relayVars, envVars, remoteSize, events>>
    /\ UNCHANGED connVars

\* line 129: a signal is received from the channel
WatcherReceive ==
    /\ alive
    /\ wpc = "select"
    /\ sigwinchCh > 0
    /\ sigwinchCh' = sigwinchCh - 1
    /\ wpc' = "handle"
    /\ UNCHANGED <<notifyOn, termSize, handled>>
    /\ UNCHANGED <<mainVars, relayVars, envVars, remoteSize, events>>
    /\ UNCHANGED connVars

\* line 136: the size has not changed
SizeUnchanged(curr, last) == curr = last

\* mutant: the assignment of line 146 left out
KeepLastSize(curr, last, ok) == last

\* lines 141-146: the last-known size after a request, err being GetSize's
AfterRequest(curr, last, ok) == IF ok THEN curr ELSE last

\* the history keeps the records of the last two notifications handled
Keep(h) == IF Len(h) > 2 THEN Tail(h) ELSE h

\* lines 133-146: the size is read again and, when it differs from the
\* last-known one, sent with Session.WindowChange, whose result is dropped
WatcherHandle ==
    /\ alive
    /\ wpc = "handle"
    /\ \E ok \in BOOLEAN :
         LET curr == ReadSize(ok) IN
           IF SizeUnchanged(curr, termSize)
           THEN /\ handled' = Keep(Append(handled, [read |-> curr, ok |-> ok,
                                                    last |-> termSize, sent |-> FALSE]))
                /\ UNCHANGED <<termSize, remoteSize>>
           ELSE /\ handled' = Keep(Append(handled, [read |-> curr, ok |-> ok,
                                                    last |-> termSize, sent |-> TRUE]))
                /\ remoteSize' = IF channelOpen THEN curr ELSE remoteSize
                /\ termSize' = AfterRequest(curr, termSize, ok)
    /\ wpc' = "select"
    /\ UNCHANGED <<notifyOn, sigwinchCh>>
    /\ UNCHANGED <<mainVars, relayVars, envVars, events>>
    /\ UNCHANGED connVars

(* ------------- the output copiers, lines 201-208 ---------------------- *)

\* io.Copy returns when its stream has ended, which the remote side may
\* signal before it reports the exit status and closes the channel, or when
\* a write on the local output fails; the goroutine drops the result
CopyReturns == ~channelOpen \/ remote = "running"

\* io.Copy has returned in copier r
Finished(r) == copyPc[r] = "done"

\* lines 201-204 (r = "stderr") and 205-208 (r = "stdout"): io.Copy returns
\* and the deferred wg.Done() runs
CopyDone(r) ==
    /\ alive
    /\ copyPc[r] = "copy"
    /\ CopyReturns
    /\ copyPc' = [copyPc EXCEPT ![r] = "done"]
    /\ wg' = wg - 1
    /\ UNCHANGED <<inPc, buf, nread, written, inErr, exitMsg>>
    /\ UNCHANGED <<mainVars, watcherVars, envVars, remoteSize, events>>
    /\ UNCHANGED connVars

StderrCopy == CopyDone("stderr")
StdoutCopy == CopyDone("stdout")

(* ------------- the input forwarder, lines 211-228 --------------------- *)

\* lines 215-218: what a read error leaves in t.exitMsg
AfterReadError(msg) == msg

\* n, err := os.Stdin.Read(buf), line 214: the next n bytes of the input,
\* each named by its position in the input
ReadChunk(from, n) == [i \in 1..n |-> from + i]

\* os.Stdin.Read, lines 214-219: a chunk of at most BufSize bytes, or an error
\* that is printed and ends the goroutine
InputRead ==
    /\ alive
    /\ inPc = "read"
    /\ \/ /\ \E n \in 1..Min(BufSize, typed - nread) :
               /\ buf' = ReadChunk(nread, n)
               /\ nread' = nread + n
          /\ inPc' = "write"
          /\ UNCHANGED <<inErr, exitMsg>>
       \/ /\ inErr' = "read"
          /\ exitMsg' = AfterReadError(exitMsg)
          /\ inPc' = "done"
          /\ UNCHANGED <<buf, nread>>
    /\ UNCHANGED <<copyPc, written, wg>>
    /\ UNCHANGED <<mainVars, watcherVars, envVars, remoteSize, events>>
    /\ UNCHANGED connVars

\* a write on the session's stdin fails once the channel is closed
WriteFails == ~channelOpen

\* mutant: the slice given to Write starts one byte late
ForwardedShort(b) == Tail(b)

\* buf[:n], line 220: what is written is what was read
Forwarded(b) == b

\* t.stdin.Write, lines 220-222
InputWrite ==
    /\ alive
    /\ inPc = "write"
    /\ IF WriteFails
       THEN /\ inErr' = "write"
            /\ inPc' = "record"
            /\ UNCHANGED written
       ELSE /\ written' = written \o Forwarded(buf)
            /\ inPc' = "read"
            /\ UNCHANGED inErr
    /\ UNCHANGED <<copyPc, buf, nread, wg, exitMsg>>
    /\ UNCHANGED <<mainVars, watcherVars, envVars, remoteSize, events>>
    /\ UNCHANGED connVars

\* lines 222-224: the write error is printed and stored in t.exitMsg without
\* synchronisation; the main flow reads the field before or after this step
InputRecord ==
    /\ alive
    /\ inPc = "record"
    /\ exitMsg' = WriteErrText
    /\ inPc' = "done"
    /\ UNCHANGED <<copyPc, buf, nread, written, inErr, wg>>
    /\ UNCHANGED <<mainVars, watcherVars, envVars, remoteSize, events>>
    /\ UNCHANGED connVars

(* ------------------------- the environment ---------------------------- *)

\* the kernel sends SIGWINCH; the Go runtime puts it in the channel unless the
\* channel is full or nothing is registered
Deliver(n) == IF notifyOn THEN Min(n + 1, SigChanCap) ELSE n

\* the operator resizes the local terminal
LocalResize ==
    /\ alive
    /\ resizes < MaxResize
    /\ \E s \in Sizes \ {localSize} : localSize' = s
    /\ resizes' = resizes + 1
    /\ sigwinchCh' = Deliver(sigwinchCh)
    /\ UNCHANGED <<typed, remote, exitStatus, signals>>
    /\ UNCHANGED <<wpc, notifyOn, termSize, handled>>
    /\ UNCHANGED <<mainVars, relayVars, remoteSize, events>>
    /\ UNCHANGED connVars

\* a window-change signal arrives although the size is what it was
Sigwinch ==
    /\ alive
    /\ signals < MaxSignal
    /\ notifyOn
    /\ signals' = signals + 1
    /\ sigwinchCh' = Deliver(sigwinchCh)
    /\ UNCHANGED <<localSize, typed, remote, exitStatus, resizes>>
    /\ UNCHANGED <<wpc, notifyOn, termSize, handled>>
    /\ UNCHANGED <<mainVars, relayVars, remoteSize, events>>
    /\ UNCHANGED connVars

\* the operator types a byte
Type ==
    /\ alive
    /\ typed < MaxInput
    /\ typed' = typed + 1
    /\ UNCHANGED <<localSize, remote, exitStatus, resizes, signals>>
    /\ UNCHANGED <<mainVars, watcherVars, relayVars, remoteSize, events>>
    /\ UNCHANGED connVars

\* a paste is more than buf holds, so that no single Read takes it
PasteLen == BufSize + MaxExtra

\* the operator pastes PasteLen bytes at once, as the first input
Paste ==
    /\ alive
    /\ typed = 0
    /\ typed' = typed + PasteLen
    /\ UNCHANGED <<localSize, remote, exitStatus, resizes, signals>>
    /\ UNCHANGED <<mainVars, watcherVars, relayVars, remoteSize, events>>
    /\ UNCHANGED connVars

\* the remote command ends and the remote side closes the channel
RemoteExit ==
    /\ alive
    /\ remote = "running"
    /\ remote' = "exited"
    /\ \E st \in {"zero", "nonzero"} : exitStatus' = st
    /\ UNCHANGED <<localSize, typed, resizes, signals>>
    /\ UNCHANGED <<mainVars, watcherVars, relayVars, remoteSize, events>>
    /\ UNCHANGED connVars

(* ------------------------- the specification -------------------------- *)

Next ==
    \/ Dial \/ NewSession \/ EnterSession \/ MakeRaw \/ GetSize
    \/ RequestPty \/ updateTerminalSize
    \/ StdinPipe \/ StdoutPipe \/ StderrPipe
    \/ StartRelays \/ Shell \/ WgWait \/ SessionWait
    \/ Restore \/ WriteExitMsg \/ ReturnIS
    \/ SessionClose \/ ClientClose \/ ReturnCT
    \/ WatcherNotify \/ WatcherGetSize \/ WatcherReceive \/ WatcherHandle
    \/ StderrCopy \/ StdoutCopy
    \/ InputRead \/ InputWrite \/ InputRecord
    \/ LocalResize \/ Sigwinch \/ Type \/ RemoteExit

Spec == Init /\ [][Next]_vars

\* the steps of the main flow from wg.Wait to the end of the process: each
\* is taken once it can be, since the goroutine of main is scheduled
MainReturns ==
    \/ WgWait \/ SessionWait
    \/ Restore \/ WriteExitMsg \/ ReturnIS
    \/ SessionClose \/ ClientClose \/ ReturnCT

\* the session of a user who types nothing: os.Stdin.Read of the forwarder
\* (line 214) never gets a byte, so the forwarder stays in Read unless Read
\* fails, and never reaches Write; everything else runs as in Next
NextLive ==
    \/ Dial \/ NewSession \/ EnterSession \/ MakeRaw \/ GetSize
    \/ RequestPty \/ updateTerminalSize
    \/ StdinPipe \/ StdoutPipe \/ StderrPipe
    \/ StartRelays \/ Shell \/ WgWait \/ SessionWait
    \/ Restore \/ WriteExitMsg \/ ReturnIS
    \/ SessionClose \/ ClientClose \/ ReturnCT
    \/ WatcherNotify \/ WatcherGetSize \/ WatcherReceive \/ WatcherHandle
    \/ StderrCopy \/ StdoutCopy
    \/ InputRead
    \/ LocalResize \/ Sigwinch \/ RemoteExit

\* that session with its scheduling: the main goroutine and the two copiers
\* run when they can; nothing is assumed of the forwarder, of the watcher or
\* of the environment, which may all stay where they are for ever
SpecLive ==
    /\ Init
    /\ [][NextLive]_vars
    /\ WF_vars(MainReturns)
    /\ WF_vars(StderrCopy)
    /\ WF_vars(StdoutCopy)

(* -------- connectToServer, lines 67-95: the authentication list ------- *)

\* the Servers a configuration can hold
Servers == [UseKey : BOOLEAN,
            PrivateKey : {"", "~/.ssh/id_ed25519"},
            Password : {"", "secret"}]

\* what the key branch finds: whether user.Current succeeds, and whether the
\* file at the key path can be read and parsed
Files == [home : BOOLEAN, key : {"ok", "unreadable", "unparsable"}]

\* mutant: the error of ssh.ParsePrivateKey is not checked
KeyErrorUnparsed(sv, f) ==
    IF ~f.home THEN "HomeDirError"
    ELSE IF sv.PrivateKey = "" \/ f.key = "unreadable" THEN "KeyReadError"
    ELSE NoErr

\* lines 76-88: the error the key branch returns, "nil" when the key is
\* read and parsed; no file is read at an empty path
KeyError(sv, f) ==
    IF ~f.home THEN "HomeDirError"
    ELSE IF sv.PrivateKey = "" \/ f.key = "unreadable" THEN "KeyReadError"
    ELSE IF f.key = "unparsable" THEN "KeyParseError"
    ELSE NoErr

\* mutant: "if" in the place of "else if" at line 90
UsesPasswordAlso(sv) == sv.Password # ""

\* line 90: the password branch is the else of the key branch
UsesPassword(sv) == ~sv.UseKey /\ sv.Password # ""

\* lines 70, 89, 91: sshConfig.Auth once the branches have run
AuthMethods(sv) ==
    (IF sv.UseKey THEN <<"publickey">> ELSE << >>)
        \o (IF UsesPassword(sv) THEN <<"password">> ELSE << >>)

\* lines 68-95: the authentication list is built, or the key branch fails
\* and connectToServer returns its error
BuildAuth ==
    /\ pc = "auth"
    /\ IF server.UseKey /\ KeyError(server, files) # NoErr
       THEN /\ retErr' = KeyError(server, files)
            /\ pc' = "retCT"
            /\ UNCHANGED auth
       ELSE /\ auth' = AuthMethods(server)
            /\ pc' = "dial"
            /\ UNCHANGED retErr
    /\ UNCHANGED <<deferCT, deferIS, client, session, termMode, state, isSize,
                   ptyState, pipes, shell, waitCalled, remoteSize, events>>
    /\ UNCHANGED <<watcherVars, relayVars, envVars, server, files>>

\* connectToServer is called with any Server, in any state of the files
InitConn ==
    /\ pc = "auth"
    /\ server \in Servers
    /\ files \in Files
    /\ auth = << >>
    /\ retErr = NoErr
    /\ deferCT = << >>
    /\ deferIS = << >>
    /\ client = "none"
    /\ session = "none"
    /\ termMode = "cooked"
    /\ state = "unset"
    /\ isSize = ErrSize
    /\ ptyState = "none"
    /\ pipes = [p \in {"stdin", "stdout", "stderr"} |-> "none"]
    /\ shell = "none"
    /\ exitMsg = ""
    /\ wg = 0
    /\ waitCalled = FALSE
    /\ wpc = "off"
    /\ notifyOn = FALSE
    /\ sigwinchCh = 0
    /\ termSize = ErrSize
    /\ copyPc = [r \in {"stderr", "stdout"} |-> "off"]
    /\ inPc = "off"
    /\ buf = << >>
    /\ nread = 0
    /\ written = << >>
    /\ inErr = "none"
    /\ localSize = InitialSize
    /\ typed = 0
    /\ remote = "idle"
    /\ exitStatus = "none"
    /\ remoteSize = ErrSize
    /\ resizes = 0
    /\ signals = 0
    /\ events = << >>
    /\ handled = << >>

\* connectToServer from its first statement, with a terminal that is not
\* resized while the session runs
NextConn ==
    \/ BuildAuth
    \/ Dial \/ NewSession \/ EnterSession \/ MakeRaw \/ GetSize
    \/ RequestPty \/ updateTerminalSize
    \/ StdinPipe \/ StdoutPipe \/ StderrPipe
    \/ StartRelays \/ Shell \/ WgWait \/ SessionWait
    \/ Restore \/ WriteExitMsg \/ ReturnIS
    \/ SessionClose \/ ClientClose \/ ReturnCT
    \/ WatcherNotify \/ WatcherGetSize
    \/ StderrCopy \/ StdoutCopy
    \/ InputRead \/ InputWrite \/ InputRecord
    \/ Type \/ RemoteExit

SpecConn == InitConn /\ [][NextConn]_vars

(* ------- the forwarder alone, lines 211-228, on pasted input ----------- *)

\* the state in which interactiveSession reaches wg.Wait (line 234): raw
\* mode, pty granted, pipes open, shell started, the watcher registered, the
\* copiers and the forwarder running, nothing typed yet
InitRelay ==
    /\ pc = "wg.Wait"
    /\ retErr = NoErr
    /\ deferCT = <<"client.Close", "session.Close">>
    /\ deferIS = <<"exitMsg", "term.Restore">>
    /\ client = "open"
    /\ session = "open"
    /\ termMode = "raw"
    /\ state = "saved"
    /\ isSize = InitialSize
    /\ ptyState = "ok"
    /\ pipes = [p \in {"stdin", "stdout", "stderr"} |-> "open"]
    /\ shell = "started"
    /\ exitMsg = ""
    /\ wg = WgAdd
    /\ waitCalled = FALSE
    /\ wpc = "select"
    /\ notifyOn = TRUE
    /\ sigwinchCh = 0
    /\ termSize = InitialSize
    /\ copyPc = [r \in {"stderr", "stdout"} |-> "copy"]
    /\ inPc = "read"
    /\ buf = << >>
    /\ nread = 0
    /\ written = << >>
    /\ inErr = "none"
    /\ localSize = InitialSize
    /\ typed = 0
    /\ remote = "running"
    /\ exitStatus = "none"
    /\ remoteSize = InitialSize
    /\ resizes = 0
    /\ signals = 0
    /\ events = << >>
    /\ handled = << >>
    /\ server = PasswordServer
    /\ files = [home |-> TRUE, key |-> "ok"]
    /\ auth = <<"password">>

\* the forwarder, the operator pasting, and the remote command ending
NextRelay ==
    \/ Paste
    \/ InputRead \/ InputWrite \/ InputRecord
    \/ RemoteExit

SpecRelay == InitRelay /\ [][NextRelay]_vars

TypeOK ==
    /\ pc \in {"auth", "dial", "newSession", "interactiveSession", "makeRaw",
               "getSize", "requestPty", "updateTerminalSize", "StdinPipe",
               "StdoutPipe", "StderrPipe", "go", "Shell", "wg.Wait",
               "Session.Wait", "retIS", "retCT", "done"}
    /\ client \in {"none", "open", "closed"}
    /\ session \in {"none", "open", "closed"}
    /\ termMode \in {"cooked", "raw"}
    /\ state \in {"unset", "saved"}
    /\ ptyState \in {"none", "ok", "rejected"}
    /\ shell \in {"none", "started", "failed"}
    /\ exitMsg \in {"", WriteErrText}
    /\ wg \in 0..WgAdd
    /\ wpc \in {"off", "notify", "getSize", "select", "handle"}
    /\ sigwinchCh \in 0..SigChanCap
    /\ inPc \in {"off", "read", "write", "record", "done"}
    /\ Len(written) <= nread /\ nread <= typed
    /\ remote \in {"idle", "running", "exited"}
    /\ Len(handled) <= 2

(* ----------------------------- the claims ----------------------------- *)

CallNames == {"term.Restore", "session.Close", "client.Close"}
Count(x) == Cardinality({i \in 1..Len(events) : events[i] = x})
Messages == {i \in 1..Len(events) : events[i] \notin CallNames}
Before(x, i) == \E j \in 1..(i - 1) : events[j] = x
\* interactiveSession has returned
Returned == pc \in {"retCT", "done"} /\ session # "none"

\* C1: once raw mode has been entered, term.Restore is called exactly once on
\* every exit path of interactiveSession: never twice, and once by the time
\* the function has returned.
C1_RestoreExactlyOnce ==
    /\ Count("term.Restore") <= 1
    /\ (Returned /\ state = "saved") => Count("term.Restore") = 1

C1_Witness ==
    /\ pc = "done"
    /\ state = "saved"
    /\ retErr = "StreamOpenError"
    /\ Count("term.Restore") = 1

\* C2, as stated: when term.Restore is called, session.Close and client.Close
\* have both been called already.
C2_RestoreAfterCloses ==
    \A i \in 1..Len(events) :
        events[i] = "term.Restore" =>
            Before("session.Close", i) /\ Before("client.Close", i)

\* C2, amended: after raw mode has been entered, term.Restore is the first
\* teardown step; the final message, session.Close and client.Close follow
\* it in that order.
C2_RestoreFirst ==
    /\ (state = "saved" /\ events # << >>) => events[1] = "term.Restore"
    /\ (pc = "done" /\ state = "saved") =>
          /\ Len(events) = 4
          /\ events[2] \notin CallNames
          /\ events[3] = "session.Close"
          /\ events[4] = "client.Close"

C2_Witness ==
    /\ pc = "done"
    /\ state = "saved"
    /\ shell = "started"
    /\ events = <<"term.Restore", DefaultMsg, "session.Close", "client.Close">>

\* C3: a pipe is opened only after RequestPty has succeeded, Session.Shell is
\* requested only after all three pipes have been opened, and never after
\* RequestPty or a pipe has failed.
C3_PtyThenPipesThenShell ==
    /\ (\E p \in DOMAIN pipes : pipes[p] # "none") => ptyState = "ok"
    /\ shell # "none" =>
          /\ ptyState = "ok"
          /\ \A p \in DOMAIN pipes : pipes[p] = "open"
    /\ (ptyState = "rejected" \/ \E p \in DOMAIN pipes : pipes[p] = "failed")
          => shell = "none"

C3_Witness ==
    /\ shell = "started"
    /\ ptyState = "ok"
    /\ \A p \in DOMAIN pipes : pipes[p] = "open"

\* C4: the watcher sends a window-change request only when the size it reads
\* again differs from its last-known size, and of two consecutive
\* notifications for which it reads the same size of the terminal the second
\* sends none, so the two send at most one.
C4_ResizeDeduplicated ==
    /\ \A i \in 1..Len(handled) :
          handled[i].sent <=> handled[i].read # handled[i].last
    /\ \A i \in 1..(Len(handled) - 1) :
          (handled[i].ok /\ handled[i + 1].read = handled[i].read)
              => /\ ~handled[i + 1].sent
                 /\ ~(handled[i].sent /\ handled[i + 1].sent)

C4_Witness ==
    /\ Len(handled) = 2
    /\ resizes = 1 /\ signals = 1
    /\ handled[1].ok /\ handled[1].sent
    /\ handled[2].ok /\ handled[2].read = handled[1].read
    /\ ~handled[2].sent

\* C5, as stated: while the session runs, whenever the watcher has handled
\* every notification delivered (and no read of the size has failed), the
\* size last given to the remote side is the size of the local terminal.
C5_RemoteSizeSynchronized ==
    (/\ ptyState = "ok"
     /\ channelOpen
     /\ wpc = "select"
     /\ sigwinchCh = 0
     /\ termSize # ErrSize
     /\ \A i \in 1..Len(handled) : handled[i].ok)
        => remoteSize = localSize

\* C6, as stated: when the forwarder has stopped on an error of Read or of
\* Write, the error is in t.exitMsg.
C6_RelayErrorsRecorded ==
    (inPc = "done" /\ inErr # "none") => exitMsg # ""

\* C7: an error in the forwarder changes neither the session, nor the
\* copiers, nor the position of the main flow, which leaves wg.Wait only
\* when both copiers are done.
C7_InputErrorStopsOnlyInput ==
    /\ [][(inErr = "none" /\ inErr' # "none") =>
             UNCHANGED <<session, client, copyPc, wg, pc>>]_vars
    /\ [][(inPc = "record" /\ inPc' = "done") =>
             UNCHANGED <<session, client, copyPc, wg, pc>>]_vars
    /\ [][(pc = "wg.Wait" /\ pc' # "wg.Wait") =>
             \A r \in DOMAIN copyPc : Finished(r)]_vars

C7_Witness ==
    /\ inPc = "done"
    /\ inErr = "write"
    /\ pc = "wg.Wait"
    /\ session = "open"
    /\ copyPc["stdout"] = "copy"

\* C8: interactiveSession writes exactly one final message: t.exitMsg when it
\* is set at the time the message is written, the default message otherwise.
C8_OneFinalMessage ==
    /\ [](Cardinality(Messages) <= 1)
    /\ [](Returned => Cardinality(Messages) = 1)
    /\ [][events' # events /\ events'[Len(events')] \notin CallNames =>
             events'[Len(events')] =
                 (IF exitMsg = "" THEN DefaultMsg ELSE exitMsg)]_vars

C8_Witness ==
    /\ pc = "done"
    /\ exitMsg = WriteErrText
    /\ \E i \in Messages : events[i] = WriteErrText

\* C9, as stated: when the shell has been started and the remote command has
\* ended with status 0, the final message is the default one and no error is
\* returned.
C9_CleanExitDefaultMessage ==
    (pc = "done" /\ shell = "started" /\ exitStatus = "zero") =>
        /\ retErr = NoErr
        /\ \A i \in Messages : events[i] = DefaultMsg

\* C10: Session.Wait is called only when both copiers are done, and its
\* result is what interactiveSession returns: an error when it is not nil,
\* no error when it is nil.
C10_WaitAfterCopiers ==
    /\ waitCalled => \A r \in DOMAIN copyPc : Finished(r)
    /\ (waitCalled /\ pc \in {"retIS", "retCT", "done"}) =>
          /\ exitStatus = "zero" => retErr = NoErr
          /\ exitStatus = "nonzero" => retErr = "RemoteExitError"

C10_Witness ==
    /\ pc = "done"
    /\ waitCalled
    /\ exitStatus = "nonzero"
    /\ retErr = "RemoteExitError"

KeyErrors == {"HomeDirError", "KeyReadError", "KeyParseError"}
NothingStarted ==
    /\ ptyState = "none"
    /\ \A p \in DOMAIN pipes : pipes[p] = "none"
    /\ wpc = "off"
    /\ \A r \in DOMAIN copyPc : copyPc[r] = "off"
    /\ inPc = "off"
    /\ shell = "none"

\* C11: once ssh.Dial has succeeded the client is closed exactly once on
\* every exit path, once a session has been created it is closed on every
\* exit path, and when NewSession fails the client is still closed and
\* interactiveSession is not entered.
C11_ConnectionClosedOnce ==
    /\ Count("client.Close") <= 1
    /\ Count("session.Close") <= 1
    /\ (pc = "done" /\ retErr # "DialError") =>
          client = "closed" /\ Count("client.Close") = 1
    /\ (pc = "done" /\ retErr \notin {"DialError", "SessionError"}) =>
          session = "closed" /\ Count("session.Close") = 1
    /\ retErr = "SessionError" =>
          /\ session = "none"
          /\ Messages = {}
          /\ termMode = "cooked" /\ state = "unset"
          /\ NothingStarted

C11_Witness ==
    /\ pc = "done"
    /\ retErr = "SessionError"
    /\ client = "closed"
    /\ events = <<"client.Close">>

\* C12: when term.MakeRaw fails no state is saved, term.Restore is never
\* called, and interactiveSession returns that error without a pty request,
\* a pipe, the watcher, a relay or the shell.
C12_RawModeFailure ==
    retErr = "RawModeError" =>
        /\ state = "unset"
        /\ termMode = "cooked"
        /\ Count("term.Restore") = 0
        /\ "term.Restore" \notin {deferIS[i] : i \in 1..Len(deferIS)}
        /\ NothingStarted
        /\ pc \in {"retIS", "retCT", "done"}

C12_Witness ==
    /\ pc = "done"
    /\ retErr = "RawModeError"
    /\ Cardinality(Messages) = 1
    /\ Count("term.Restore") = 0

\* C13: with key authentication selected, a key file that cannot be read or
\* parsed makes connectToServer return an error before ssh.Dial: no
\* connection is made, interactiveSession is not entered and the mode of the
\* local terminal is not changed.
C13_KeyFailureBeforeDial ==
    (server.UseKey /\ files.key # "ok") =>
        /\ client = "none" /\ session = "none"
        /\ termMode = "cooked" /\ state = "unset"
        /\ events = << >>
        /\ NothingStarted
        /\ pc \in {"auth", "retCT", "done"}
        /\ pc # "auth" => retErr \in KeyErrors

C13_Witness ==
    /\ pc = "done"
    /\ server.UseKey
    /\ files.key = "unparsable"
    /\ retErr = "KeyParseError"

\* C14: when the remote side rejects the pty request interactiveSession
\* returns that error at once: no pipe is opened, no watcher or relay is
\* started, the shell is not requested, and the terminal is restored.
C14_PtyRejected ==
    ptyState = "rejected" =>
        /\ retErr = "PtyRequestError"
        /\ pc \in {"retIS", "retCT", "done"}
        /\ \A p \in DOMAIN pipes : pipes[p] = "none"
        /\ wpc = "off"
        /\ \A r \in DOMAIN copyPc : copyPc[r] = "off"
        /\ inPc = "off"
        /\ shell = "none"
        /\ Returned => (Count("term.Restore") = 1 /\ termMode = "cooked")

C14_Witness ==
    /\ pc = "done"
    /\ ptyState = "rejected"
    /\ retErr = "PtyRequestError"
    /\ termMode = "cooked"

\* C15, as stated: the exit status of the process is 0 when connectToServer
\* returns no error and not 0 when a stage has failed.
C15_ExitStatusReflectsFailure ==
    pc = "done" => (ExitStatus(retErr) = 0 <=> retErr = NoErr)

\* the connection is attempted: ssh.Dial is the next statement or has run
Attempted == pc = "dial" \/ client # "none" \/ retErr = "DialError"

\* C16, as stated: for a Server with a key path set the connection is
\* attempted with the key method alone, and the list never holds more than
\* one method.
C16_KeyPathMeansKeyAuth ==
    /\ (server.PrivateKey # "" /\ Attempted) => auth = <<"publickey">>
    /\ Len(auth) <= 1

\* C16, amended: for a Server with use_key set the connection is attempted
\* with the key method alone, also when a password is configured; without
\* use_key the key path is not used; the list never holds more than one
\* method.
C16_UseKeyMeansKeyAuth ==
    /\ (server.UseKey /\ Attempted) => auth = <<"publickey">>
    /\ (~server.UseKey /\ Attempted) => "publickey" \notin {auth[i] : i \in 1..Len(auth)}
    /\ Len(auth) <= 1

C16_Witness ==
    /\ server.UseKey
    /\ server.Password # ""
    /\ client = "open"
    /\ auth = <<"publickey">>

\* C17: once the shell has been started and the remote command has ended
\* (its streams end and Session.Wait reports the status), the main flow
\* reaches the end with the terminal restored and the final message written,
\* whatever the forwarder and the watcher do, also when they stay blocked.
C17_SessionEnds ==
    (shell = "started" /\ remote = "exited")
        ~> (pc = "done" /\ termMode = "cooked" /\ Cardinality(Messages) = 1)

C17_Witness ==
    /\ pc = "done"
    /\ shell = "started"
    /\ remote = "exited"
    /\ inPc = "read"
    /\ wpc = "select" /\ sigwinchCh = 0
    /\ termMode = "cooked"
    /\ Cardinality(Messages) = 1

\* C18, as stated: a notification on which the watcher fails to read the
\* size again sends no window-change request and leaves the last-known size
\* as it was, and the last-known size changes only to a size that a request
\* has just carried.
C18_FailedReadSendsNothing ==
    /\ \A i \in 1..Len(handled) : ~handled[i].ok => ~handled[i].sent
    /\ \A i \in 1..(Len(handled) - 1) :
          /\ ~handled[i].ok => handled[i + 1].last = handled[i].last
          /\ handled[i + 1].last # handled[i].last
                => (handled[i].sent /\ handled[i + 1].last = handled[i].read)

\* C19, as stated: once the session has been closed the watcher sends no
\* window-change request and the forwarder makes no write on the input
\* stream of the session, and t.exitMsg is not assigned once the final
\* message has been written.
C19_NothingAfterClose ==
    [][/\ (wpc = "handle" /\ wpc' = "select" /\ handled'[Len(handled')].sent)
            => session # "closed"
       /\ (inPc = "write" /\ inPc' # "write") => session # "closed"
       /\ exitMsg' # exitMsg => Messages = {}]_vars

\* C20: what the forwarder has written on the input stream of the session is
\* at every point the first bytes of what it has read from the local input,
\* in the order read (a byte is named by its position in the input): a chunk
\* holds at most BufSize bytes, between two chunks everything read has been
\* written, and a chunk read and not yet written is exactly what is missing.
C20_WrittenIsPrefixOfRead ==
    /\ written = ReadChunk(0, Len(written))
    /\ Len(written) <= nread
    /\ Len(buf) <= BufSize
    /\ inPc = "read" => Len(written) = nread
    /\ inPc = "write" => written \o buf = ReadChunk(0, nread)

C20_Witness ==
    /\ typed = PasteLen
    /\ inPc = "read"
    /\ Len(buf) = BufSize
    /\ Len(written) = PasteLen
    /\ written[PasteLen] = PasteLen

====
